---- MODULE Spec2Model ----
(***************************************************************************)
(* Password_Creator: PasswordPolicy (src/Policy/policy.py) and             *)
(* PasswordGenerator (src/generator/generator.py).                         *)
(*                                                                         *)
(* Representation of Python values:                                        *)
(*   - a character is its code point (an integer);                         *)
(*   - a str is a sequence of code points, so chr(65) is <<65>>, "" is     *)
(*     << >> and len(s) is Len(s);                                         *)
(*   - a list of str is a sequence of such sequences;                      *)
(*   - an Optional value is a set with at most one element: None is {}     *)
(*     and a present value v is {v}.                                       *)
(* Inputs are drawn from well-typed values (integers for the lengths,      *)
(* lists of str for allowed_specials and deny_substrings), so the          *)
(* isinstance tests of validate_rules never raise in the model.            *)
(***************************************************************************)
EXTENDS Integers, Sequences, FiniteSets, TLC

VARIABLES policy, pc, error, max_attempts, attempts, target_length,
          password_chars, password, built, data, policy2, error2

vars == <<policy, pc, error, max_attempts, attempts, target_length,
          password_chars, password, built, data, policy2, error2>>

genVars == <<max_attempts, attempts, target_length, password_chars,
             password, built>>

serVars == <<data, policy2, error2>>

(***************************************************************************)
(* Bounds of the model.                                                    *)
(***************************************************************************)
\* lengths 1..MaxLen are generated; longer (valid) policies are not run
MaxLen == 3
\* generate is called with max_attempts in 0..MaxAttempts
MaxAttempts == 2

(***************************************************************************)
(* Program constants.                                                      *)
(***************************************************************************)
MAX_ALLOWED_LENGTH == 1024

None == {}

Some(v) == {v}

Val(o) == CHOOSE v \in o : TRUE

OK == "ok"

\* str.isspace() restricted to ASCII: non-empty and all characters whitespace
Whitespace == {9, 10, 11, 12, 13, 28, 29, 30, 31, 32}

isspace(s) == Len(s) > 0 /\ \A i \in 1..Len(s) : s[i] \in Whitespace

Range(s) == {s[i] : i \in 1..Len(s)}

\* Python truthiness of an Optional list: None and [] are falsy
Falsy(o) == o = None \/ Len(Val(o)) = 0

\* sum of the four require_* booleans
required_count(p) ==
    (IF p.require_upper THEN 1 ELSE 0) + (IF p.require_lower THEN 1 ELSE 0)
    + (IF p.require_digits THEN 1 ELSE 0)
    + (IF p.require_specials THEN 1 ELSE 0)

\* the fields assigned by __init__, as one record
Policy(lmin, lmax, ru, rl, rd, rs, specials, deny, mcs, nows) ==
    [length_min |-> lmin, length_max |-> lmax,
     require_upper |-> ru, require_lower |-> rl,
     require_digits |-> rd, require_specials |-> rs,
     allowed_specials |-> specials, deny_substrings |-> deny,
     max_consecutive_same |-> mcs, no_whitespace |-> nows]

(***************************************************************************)
(* PasswordPolicy.validate_rules, check by check.  Each check gives the    *)
(* message of the PolicyError it raises, or OK when it lets the policy     *)
(* through.                                                                *)
(***************************************************************************)
validate_lengths(p) ==
    IF p.length_min <= 0 \/ p.length_max <= 0
      THEN "PolicyError: length_min and length_max must be > 0"
    ELSE IF p.length_min > p.length_max
      THEN "PolicyError: length_min must be <= length_max"
    ELSE OK

\* mutant: an empty allowed_specials is let through
validate_allowed_specials_empty(p) ==
    IF p.require_specials
      THEN IF p.allowed_specials = None
             THEN "allowed_specials must be a list or tuple of strings"
           ELSE IF \E c \in Range(Val(p.allowed_specials)) : Len(c) # 1
             THEN "allowed_specials must contain only single-character strings"
           ELSE OK
      ELSE OK

\* mutant: the length of the entries is not tested
validate_allowed_specials_any_length(p) ==
    IF p.require_specials
      THEN IF p.allowed_specials = None
             THEN "allowed_specials must be a list or tuple of strings"
           ELSE IF Len(Val(p.allowed_specials)) = 0
             THEN "allowed_specials must not be empty"
           ELSE OK
      ELSE OK

validate_allowed_specials(p) ==
    IF p.require_specials
      THEN IF p.allowed_specials = None
             THEN "allowed_specials must be a list or tuple of strings"
           ELSE IF Len(Val(p.allowed_specials)) = 0
             THEN "allowed_specials must not be empty"
           ELSE IF \E c \in Range(Val(p.allowed_specials)) : Len(c) # 1
             THEN "allowed_specials must contain only single-character strings"
           ELSE OK
      ELSE OK

validate_deny_substrings(p) ==
    IF p.deny_substrings # None
       /\ \E s \in Range(Val(p.deny_substrings)) : s = << >>
      THEN "deny_substrings must not contain empty strings"
      ELSE OK

validate_max_length(p) ==
    IF p.length_min > MAX_ALLOWED_LENGTH \/ p.length_max > MAX_ALLOWED_LENGTH
      THEN "PolicyError: length_min or length_max value (must be <= 1024)"
      ELSE OK

\* mutant: only the first allowed special is tested for whitespace
validate_no_whitespace_first(p) ==
    IF p.no_whitespace /\ p.allowed_specials # None
       /\ Len(Val(p.allowed_specials)) > 0
       /\ isspace(Val(p.allowed_specials)[1])
      THEN "PolicyError: Special characters cannot have whitespaces"
      ELSE OK

validate_no_whitespace(p) ==
    IF p.no_whitespace /\ p.allowed_specials # None
       /\ \E c \in Range(Val(p.allowed_specials)) : isspace(c)
      THEN "PolicyError: Special characters cannot have whitespaces"
      ELSE OK

\* mutant: the bound is compared with 0 instead of 1
validate_max_consecutive_same_zero(p) ==
    IF p.max_consecutive_same # None /\ Val(p.max_consecutive_same) < 0
      THEN "PolicyError: max_consecutive_same Must be >= 1"
      ELSE OK

validate_max_consecutive_same(p) ==
    IF p.max_consecutive_same # None /\ Val(p.max_consecutive_same) < 1
      THEN "PolicyError: max_consecutive_same Must be >= 1"
      ELSE OK

validate_required_count(p) ==
    IF required_count(p) > p.length_max
      THEN "PolicyError: length_max must be >= required_count"
      ELSE OK

\* the first message that is not OK, in the order the checks are made
FirstError(msgs) ==
    IF \A i \in 1..Len(msgs) : msgs[i] = OK
      THEN OK
      ELSE msgs[CHOOSE i \in 1..Len(msgs) :
                  msgs[i] # OK /\ \A j \in 1..(i - 1) : msgs[j] = OK]

validate_rules(p) ==
    FirstError(<<validate_lengths(p), validate_allowed_specials(p),
                 validate_deny_substrings(p), validate_max_length(p),
                 validate_no_whitespace(p), validate_max_consecutive_same(p),
                 validate_required_count(p)>>)

(***************************************************************************)
(* Serialization.  A dict is a function from its keys.                     *)
(***************************************************************************)
to_dict(p) ==
    [length_min |-> p.length_min,
     length_max |-> p.length_max,
     require_upper |-> p.require_upper,
     require_lower |-> p.require_lower,
     require_digits |-> p.require_digits,
     require_specials |-> p.require_specials,
     allowed_specials |-> p.allowed_specials,
     deny_substrings |-> p.deny_substrings,
     max_consecutive_same |-> p.max_consecutive_same,
     no_whitespace |-> p.no_whitespace]

\* dict.get(key, default)
Get(d, key, default) == IF key \in DOMAIN d THEN d[key] ELSE default

\* mutant: max_consecutive_same is read under a key to_dict never writes
from_dict_wrong_key(d) ==
    Policy(Get(d, "length_min", 12),
           Get(d, "length_max", 24),
           Get(d, "require_upper", TRUE),
           Get(d, "require_lower", TRUE),
           Get(d, "require_digits", TRUE),
           Get(d, "require_specials", FALSE),
           Get(d, "allowed_specials", None),
           Get(d, "deny_substrings", None),
           Get(d, "max_consecutive", None),
           Get(d, "no_whitespace", TRUE))

\* the keyword arguments from_dict passes to the constructor
from_dict(d) ==
    Policy(Get(d, "length_min", 12),
           Get(d, "length_max", 24),
           Get(d, "require_upper", TRUE),
           Get(d, "require_lower", TRUE),
           Get(d, "require_digits", TRUE),
           Get(d, "require_specials", FALSE),
           Get(d, "allowed_specials", None),
           Get(d, "deny_substrings", None),
           Get(d, "max_consecutive_same", None),
           Get(d, "no_whitespace", TRUE))

(***************************************************************************)
(* PasswordGenerator: the random draws.  Each operator is the set of       *)
(* values the call can return.  The letter and digit ranges are cut to     *)
(* their first members: 'A' of 'A'..'Z', 'a' of 'a'..'z' and '0'..'1' of   *)
(* '0'..'9'.                                                               *)
(***************************************************************************)
upper_codes == 65..65

lower_codes == 97..97

digit_values == 0..1

\* chr(n): the one-character str with code point n
chr(n) == <<n>>

\* str(d) of a one-digit integer: the character '0' + d
str(d) == <<48 + d>>

add_upper == {chr(n) : n \in upper_codes}

add_lower == {chr(n) : n \in lower_codes}

add_digits == {str(d) : d \in digit_values}

\* random.choice(allowed_specials), once the list is known to be non-empty
add_specials(p) == Range(Val(p.allowed_specials))

NoSpecialsError == "PolicyError: No allowed specials defined in policy."

ExhaustedError == "unable to generate password after max_attempts attempts; policy too restrictive"

\* the PolicyError of _get_target_length, or OK when it draws a length.
\* length_max is an integer here, so max_val is length_max and the
\* isinstance test passes.
get_target_length_error(p) ==
    IF p.length_min <= 0
      THEN "length_min must be > 0"
    ELSE IF p.length_min > p.length_max
      THEN "length_min must be <= length_max"
    ELSE IF required_count(p) > p.length_max
      THEN "PolicyError: required categories exceed length_max"
    ELSE OK

Max(a, b) == IF a >= b THEN a ELSE b

effective_min(p) == Max(p.length_min, required_count(p))

\* mutant: the target is drawn from [length_min, length_max], without the
\* floor of the required categories
get_target_length_no_floor(p) == p.length_min..p.length_max

\* the values random.randint(effective_min, max_val) can return
get_target_length(p) == effective_min(p)..p.length_max

\* the generators the fill loop chooses from
available_generators(p) ==
    {"upper", "lower", "digits"}
    \cup (IF p.require_specials THEN {"specials"} ELSE {})

\* ''.join(chars)
RECURSIVE join(_)
join(chars) ==
    IF chars = << >> THEN << >> ELSE Head(chars) \o join(Tail(chars))

index_permutations(n) ==
    {f \in [1..n -> 1..n] : \A i, j \in 1..n : f[i] = f[j] => i = j}

\* the lists random.shuffle can leave
shuffles(chars) ==
    {[i \in 1..Len(chars) |-> chars[f[i]]] : f \in index_permutations(Len(chars))}

\* check_max_consecutive: the loop from index i (0-based) with the running
\* count
RECURSIVE consecutive_loop(_, _, _, _)
consecutive_loop(pw, max_count, i, count) ==
    IF i >= Len(pw) THEN TRUE
    ELSE IF pw[i + 1] = pw[i]
      THEN IF count + 1 > max_count
             THEN FALSE
             ELSE consecutive_loop(pw, max_count, i + 1, count + 1)
      ELSE consecutive_loop(pw, max_count, i + 1, 1)

\* mutant: a run is rejected one character too late
check_max_consecutive_late(pw, max_count) ==
    IF max_count = None THEN TRUE
    ELSE consecutive_loop(pw, Val(max_count) + 1, 1, 1)

check_max_consecutive(pw, max_count) ==
    IF max_count = None THEN TRUE
    ELSE consecutive_loop(pw, Val(max_count), 1, 1)

\* substring in password
contains(pw, sub) ==
    \E i \in 0..(Len(pw) - Len(sub)) : SubSeq(pw, i + 1, i + Len(sub)) = sub

\* mutant: the loop returns after its first substring
check_deny_substrings_first(p, pw) ==
    IF p.deny_substrings = None THEN TRUE
    ELSE ~ \E i \in 1..Len(Val(p.deny_substrings)) :
             i = 1 /\ contains(pw, Val(p.deny_substrings)[i])

check_deny_substrings(p, pw) ==
    IF p.deny_substrings = None THEN TRUE
    ELSE ~ \E i \in 1..Len(Val(p.deny_substrings)) :
             contains(pw, Val(p.deny_substrings)[i])

(***************************************************************************)
(* The inputs.                                                             *)
(***************************************************************************)
Bang == <<33>>

Space == <<32>>

\* every digit the model draws, as a deny list
AllDigits == [i \in 1..Cardinality(digit_values) |-> str(i - 1)]

At == <<64>>

\* every combination of the length bounds and the require_* flags, with one
\* special character and no post-check
CategoryInputs ==
    {Policy(lmin, lmax, ru, rl, rd, rs, Some(<<Bang>>), None, None, TRUE) :
        lmin \in 1..MaxLen, lmax \in 1..MaxLen,
        ru \in BOOLEAN, rl \in BOOLEAN, rd \in BOOLEAN, rs \in BOOLEAN}

\* short policies with the two post-checks
PostCheckInputs ==
    {Policy(lmin, lmax, ru, FALSE, rd, FALSE, None, deny, mcs, TRUE) :
        lmin \in 1..2, lmax \in 1..2, ru \in BOOLEAN, rd \in BOOLEAN,
        deny \in {None, Some(AllDigits), Some(<<chr(65) \o str(0)>>),
                  Some(<<chr(65) \o str(0), str(1)>>)},
        mcs \in {None, Some(0), Some(1), Some(2)}}

\* short policies that draw special characters
SpecialsInputs ==
    {Policy(lmin, 2, ru, FALSE, FALSE, rs, specials, deny, mcs, nows) :
        lmin \in 1..2, ru \in BOOLEAN, rs \in BOOLEAN,
        specials \in {None, Some(<< >>), Some(<<Bang>>), Some(<<Space>>),
                      Some(<<Bang \o Bang>>), Some(<<Bang, At>>),
                      Some(<<Bang, Space>>)},
        deny \in {None, Some(<<Bang>>)},
        mcs \in {None, Some(1)},
        nows \in BOOLEAN}

\* three-character policies with the run-length check alone
RunInputs ==
    {Policy(3, 3, FALSE, FALSE, FALSE, FALSE, None, None, mcs, TRUE) :
        mcs \in {None, Some(1), Some(2)}}

\* the policy that requires all four categories in four characters
FullInputs ==
    {Policy(4, 4, TRUE, TRUE, TRUE, TRUE, Some(<<Bang, At>>), None, None,
            TRUE)}

\* constructor arguments of the policies the generator is run on
GenInputs ==
    CategoryInputs \cup PostCheckInputs \cup SpecialsInputs \cup RunInputs
    \cup FullInputs

\* constructor arguments for validation and serialization
PolicyInputs ==
    {Policy(lmin, lmax, ru, rl, rd, rs, specials, deny, mcs, nows) :
        lmin \in {0, 1, 3, MAX_ALLOWED_LENGTH, MAX_ALLOWED_LENGTH + 1},
        lmax \in {0, 1, 3, MAX_ALLOWED_LENGTH, MAX_ALLOWED_LENGTH + 1},
        ru \in BOOLEAN, rl \in BOOLEAN, rd \in BOOLEAN, rs \in BOOLEAN,
        specials \in {None, Some(<< >>), Some(<<Bang>>), Some(<<Space>>),
                      Some(<<Bang \o Bang>>), Some(<<Bang, At \o At>>),
                      Some(<<Bang, << >> >>)},
        deny \in {None, Some(<< >>), Some(<<chr(65)>>),
                  Some(<<chr(65), << >> >>)},
        mcs \in {None, Some(0), Some(1)},
        nows \in BOOLEAN}

Init ==
    /\ policy \in GenInputs
    /\ pc = "new"
    /\ error = OK
    /\ max_attempts = 0
    /\ attempts = 0
    /\ target_length = 0
    /\ password_chars = << >>
    /\ password = << >>
    /\ built = 0
    /\ data = None
    /\ policy2 = None
    /\ error2 = OK

\* PasswordPolicy.__init__: the fields are assigned, then validated
Construct ==
    /\ pc = "new"
    /\ error' = validate_rules(policy)
    /\ pc' = IF validate_rules(policy) = OK THEN "ready" ELSE "rejected"
    /\ UNCHANGED <<policy, genVars, serVars>>

\* generate(max_attempts = m) is called: attempts = 0
StartGenerate ==
    /\ pc = "ready"
    /\ \E m \in 0..MaxAttempts :
          /\ max_attempts' = m
          /\ attempts' = 0
          /\ built' = 0
          /\ pc' = "loop"
    /\ UNCHANGED <<policy, error, target_length, password_chars, password,
                   serVars>>

\* top of the while True body: a fresh list and a target length
GetTargetLength ==
    /\ pc = "loop"
    /\ password_chars' = << >>
    /\ IF get_target_length_error(policy) # OK
         THEN /\ pc' = "raised"
              /\ error' = get_target_length_error(policy)
              /\ UNCHANGED target_length
         ELSE /\ \E chosen_length \in get_target_length(policy) :
                    target_length' = chosen_length
              /\ pc' = "seed"
              /\ UNCHANGED error
    /\ UNCHANGED <<policy, max_attempts, attempts, password, built, serVars>>

\* (seeds_without_digit is the mutant that forgets the digit)
\* the lists the four conditional appends can leave: one character of each
\* required category, in the order upper, lower, digit, special
seeds_without_digit(p) ==
    {(IF p.require_upper THEN <<u>> ELSE << >>)
     \o (IF p.require_lower THEN <<l>> ELSE << >>)
     \o (IF p.require_specials THEN <<s>> ELSE << >>) :
        u \in add_upper, l \in add_lower,
        s \in (IF p.require_specials THEN add_specials(p) ELSE {<< >>})}

seeds(p) ==
    {(IF p.require_upper THEN <<u>> ELSE << >>)
     \o (IF p.require_lower THEN <<l>> ELSE << >>)
     \o (IF p.require_digits THEN <<d>> ELSE << >>)
     \o (IF p.require_specials THEN <<s>> ELSE << >>) :
        u \in add_upper, l \in add_lower, d \in add_digits,
        s \in (IF p.require_specials THEN add_specials(p) ELSE {<< >>})}

SeedRequired ==
    /\ pc = "seed"
    /\ IF policy.require_specials /\ Falsy(policy.allowed_specials)
         THEN /\ pc' = "raised"
              /\ error' = NoSpecialsError
              /\ UNCHANGED password_chars
         ELSE /\ password_chars' \in seeds(policy)
              /\ pc' = "fill"
              /\ UNCHANGED error
    /\ UNCHANGED <<policy, max_attempts, attempts, target_length, password,
                   built, serVars>>

\* the characters the chosen generator g can return
draw(p, g) ==
    CASE g = "upper" -> add_upper
      [] g = "lower" -> add_lower
      [] g = "digits" -> add_digits
      [] g = "specials" -> add_specials(p)

\* mutant: the drawn character is not kept, so the list never grows
Fill_not_appended ==
    /\ pc = "fill"
    /\ Len(password_chars) < target_length
    /\ \E g \in available_generators(policy) :
          IF g = "specials" /\ Falsy(policy.allowed_specials)
            THEN /\ pc' = "raised"
                 /\ error' = NoSpecialsError
                 /\ UNCHANGED password_chars
            ELSE /\ \E c \in draw(policy, g) :
                       password_chars' = password_chars
                 /\ UNCHANGED <<pc, error>>
    /\ UNCHANGED <<policy, max_attempts, attempts, target_length, password,
                   built, serVars>>

\* one round of the fill loop
Fill ==
    /\ pc = "fill"
    /\ Len(password_chars) < target_length
    /\ \E g \in available_generators(policy) :
          IF g = "specials" /\ Falsy(policy.allowed_specials)
            THEN /\ pc' = "raised"
                 /\ error' = NoSpecialsError
                 /\ UNCHANGED password_chars
            ELSE /\ \E c \in draw(policy, g) :
                       password_chars' = Append(password_chars, c)
                 /\ UNCHANGED <<pc, error>>
    /\ UNCHANGED <<policy, max_attempts, attempts, target_length, password,
                   built, serVars>>

\* the fill loop has ended: shuffle and join
Shuffle ==
    /\ pc = "fill"
    /\ ~ (Len(password_chars) < target_length)
    /\ \E shuffled \in shuffles(password_chars) :
          /\ password_chars' = shuffled
          /\ password' = join(shuffled)
    /\ built' = built + 1
    /\ pc' = "check"
    /\ UNCHANGED <<policy, error, max_attempts, attempts, target_length,
                   serVars>>

\* mutant: the budget is compared with > instead of >=
exhausted_late(n, m) == n > m

\* the test that ends the retry loop, made after the counter is incremented
exhausted(n, m) == n >= m

\* the post-checks: return the candidate, or count the attempt
Check ==
    /\ pc = "check"
    /\ IF check_max_consecutive(password, policy.max_consecutive_same)
          /\ check_deny_substrings(policy, password)
         THEN /\ pc' = "returned"
              /\ UNCHANGED <<attempts, error>>
         ELSE /\ attempts' = attempts + 1
              /\ IF exhausted(attempts + 1, max_attempts)
                   THEN /\ pc' = "raised"
                        /\ error' = ExhaustedError
                   ELSE /\ pc' = "loop"
                        /\ UNCHANGED error
    /\ UNCHANGED <<policy, max_attempts, target_length, password_chars,
                   password, built, serVars>>

Next ==
    \/ Construct
    \/ StartGenerate
    \/ GetTargetLength
    \/ SeedRequired
    \/ Fill
    \/ Shuffle
    \/ Check

Spec == Init /\ [][Next]_vars

\* the policies of GenInputs whose candidates can be rejected, and those of
\* CategoryInputs with no require_* flag, whose fill loop is the longest
FairInputs ==
    PostCheckInputs \cup SpecialsInputs \cup RunInputs \cup FullInputs
    \cup {p \in CategoryInputs : required_count(p) = 0}

InitFair ==
    /\ policy \in FairInputs
    /\ pc = "new"
    /\ error = OK
    /\ max_attempts = 0
    /\ attempts = 0
    /\ target_length = 0
    /\ password_chars = << >>
    /\ password = << >>
    /\ built = 0
    /\ data = None
    /\ policy2 = None
    /\ error2 = OK

\* the generator runs each step to completion: no step waits
FairSpec ==
    /\ InitFair
    /\ [][Next]_vars
    /\ WF_vars(GetTargetLength \/ SeedRequired \/ Fill \/ Shuffle \/ Check)

(***************************************************************************)
(* Validation and serialization on their own, over a wider set of          *)
(* constructor arguments.                                                  *)
(***************************************************************************)
InitPolicy ==
    /\ policy \in PolicyInputs
    /\ pc = "new"
    /\ error = OK
    /\ max_attempts = 0
    /\ attempts = 0
    /\ target_length = 0
    /\ password_chars = << >>
    /\ password = << >>
    /\ built = 0
    /\ data = None
    /\ policy2 = None
    /\ error2 = OK

\* data = policy.to_dict()
ToDict ==
    /\ pc = "ready"
    /\ data = None
    /\ data' = Some(to_dict(policy))
    /\ UNCHANGED <<policy, pc, error, genVars, policy2, error2>>

\* policy2 = PasswordPolicy.from_dict(data): the constructor assigns the
\* fields and validates them
FromDict ==
    /\ data # None
    /\ policy2 = None
    /\ policy2' = Some(from_dict(Val(data)))
    /\ error2' = validate_rules(from_dict(Val(data)))
    /\ UNCHANGED <<policy, pc, error, genVars, data>>

NextPolicy ==
    \/ Construct
    \/ ToDict
    \/ FromDict

SpecPolicy == InitPolicy /\ [][NextPolicy]_vars

(***************************************************************************)
(* Properties of the returned password.                                    *)
(***************************************************************************)
Flags == {"require_upper", "require_lower", "require_digits",
          "require_specials"}

\* the number of require_* flags that are true
NumRequired(p) == Cardinality({f \in Flags : p[f]})

UpperCase == 65..90

LowerCase == 97..122

Digits == 48..57

\* sub occurs in pw at some position
Occurs(sub, pw) ==
    \E start \in 1..Len(pw) :
        /\ start + Len(sub) - 1 <= Len(pw)
        /\ \A j \in 1..Len(sub) : pw[start + j - 1] = sub[j]

\* pw has n identical adjacent characters somewhere
HasRun(pw, n) ==
    \E start \in 1..(Len(pw) - n + 1) :
        \A j \in start..(start + n - 1) : pw[j] = pw[start]

\* C1: a returned password has the target length of its attempt, the target
\* lies in [max(length_min, number of required categories), length_max], and
\* so length_min <= len(password) <= length_max.
C1_Length ==
    pc = "returned" =>
        /\ Len(password) = target_length
        /\ target_length >= policy.length_min
        /\ target_length >= NumRequired(policy)
        /\ target_length <= policy.length_max
        /\ policy.length_min <= Len(password)
        /\ Len(password) <= policy.length_max

\* a password returned at length_max under a policy that requires more
\* categories than length_min
C1_Witness ==
    /\ pc = "returned"
    /\ NumRequired(policy) > policy.length_min
    /\ Len(password) = policy.length_max
    /\ attempts = 0

\* C2: a returned password holds at least one character of every required
\* category: A-Z, a-z, 0-9, a member of allowed_specials.
C2_Coverage ==
    pc = "returned" =>
        /\ policy.require_upper =>
              \E i \in 1..Len(password) : password[i] \in UpperCase
        /\ policy.require_lower =>
              \E i \in 1..Len(password) : password[i] \in LowerCase
        /\ policy.require_digits =>
              \E i \in 1..Len(password) : password[i] \in Digits
        /\ policy.require_specials =>
              \E i \in 1..Len(password) :
                  <<password[i]>> \in Range(Val(policy.allowed_specials))

\* a password returned after a rejected attempt with a required digit that
\* the shuffle moved to the front
C2_Witness ==
    /\ pc = "returned"
    /\ attempts > 0
    /\ policy.require_upper /\ policy.require_digits
    /\ password[1] \in Digits

\* C3: under max_consecutive_same = k a returned password has no run of
\* k + 1 identical adjacent characters; with the field unset every
\* candidate passes check_max_consecutive.
C3_ConsecutiveRun ==
    /\ (pc = "returned" /\ policy.max_consecutive_same # None) =>
          ~ HasRun(password, Val(policy.max_consecutive_same) + 1)
    /\ (pc = "check" /\ policy.max_consecutive_same = None) =>
          check_max_consecutive(password, policy.max_consecutive_same)

\* a returned password with a run of exactly k under max_consecutive_same = k
C3_Witness ==
    /\ pc = "returned"
    /\ policy.max_consecutive_same = Some(2)
    /\ HasRun(password, 2)
    /\ Len(password) > 2

\* C4: no string of deny_substrings occurs in a returned password.
C4_DenySubstrings ==
    (pc = "returned" /\ policy.deny_substrings # None) =>
        \A d \in Range(Val(policy.deny_substrings)) : ~ Occurs(d, password)

\* a password returned after a candidate with a denied substring was rejected
C4_Witness ==
    /\ pc = "returned"
    /\ policy.deny_substrings # None
    /\ Len(Val(policy.deny_substrings)) > 1
    /\ attempts > 0
    /\ policy.max_consecutive_same = None

Running == pc \in {"loop", "seed", "fill", "check"}

Terminated == pc \in {"returned", "raised"}

\* the characters a one-character candidate of p can be
Producible(p) ==
    IF required_count(p) = 0
      THEN add_upper \cup add_lower \cup add_digits
      ELSE {sd[1] : sd \in seeds(p)}

\* length_min = length_max = 1 and every producible character is denied
EveryCandidateDenied(p) ==
    /\ p.length_min = 1 /\ p.length_max = 1
    /\ p.deny_substrings # None
    /\ \A c \in Producible(p) : c \in Range(Val(p.deny_substrings))

\* C5: with max_attempts >= 1 a generate call ends, returning or raising;
\* the exhaustion error comes after exactly max_attempts rejected candidates;
\* and under a policy that denies every one-character candidate the call
\* never returns and ends with the exhaustion error.
C5_Terminates ==
    /\ (Running /\ max_attempts >= 1) ~> Terminated
    /\ [](pc = "raised" /\ max_attempts >= 1 /\ error = ExhaustedError
            => attempts = max_attempts /\ built = max_attempts)
    /\ [](Terminated /\ max_attempts >= 1 /\ EveryCandidateDenied(policy)
            => pc = "raised" /\ error = ExhaustedError)

\* the exhaustion error under a policy that denies every candidate, after
\* more than one rejected candidate
C5_Witness ==
    /\ pc = "raised"
    /\ error = ExhaustedError
    /\ EveryCandidateDenied(policy)
    /\ max_attempts > 1
    /\ attempts = max_attempts

\* C10 as stated: for every max_attempts >= 0 a call builds at most
\* max_attempts candidates, and once the counter has reached max_attempts
\* the call has failed with the exhaustion error.
C10_Original ==
    (Running \/ Terminated) =>
        /\ built <= max_attempts
        /\ attempts >= max_attempts =>
              pc = "raised" /\ error = ExhaustedError

\* C10 amended: the counter counts the rejected candidates; a call with
\* max_attempts >= 1 builds at most max_attempts candidates and has failed
\* with the exhaustion error once the counter has reached max_attempts; a
\* call with max_attempts = 0 builds at most one candidate, which it returns
\* if the candidate passes the post-checks.
C10_Budget ==
    (Running \/ Terminated) =>
        /\ attempts = (IF pc \in {"check", "returned"}
                         THEN built - 1 ELSE built)
        /\ max_attempts >= 1 =>
              /\ built <= max_attempts
              /\ attempts >= max_attempts =>
                    pc = "raised" /\ error = ExhaustedError
        /\ max_attempts = 0 => built <= 1

\* the budget spent: max_attempts > 1 candidates built and all rejected
C10_Witness ==
    /\ pc = "raised"
    /\ error = ExhaustedError
    /\ max_attempts > 1
    /\ built = max_attempts
    /\ ~ EveryCandidateDenied(policy)

(***************************************************************************)
(* Properties of validation and serialization.                             *)
(***************************************************************************)
\* C6: an accepted policy has 0 < length_min <= length_max <= 1024, at most
\* length_max required categories, max_consecutive_same absent or >= 1,
\* no empty string in deny_substrings, and a non-empty allowed_specials when
\* require_specials is true.
C6_AcceptedPolicy ==
    pc = "ready" =>
        /\ 0 < policy.length_min
        /\ policy.length_min <= policy.length_max
        /\ policy.length_max <= 1024
        /\ NumRequired(policy) <= policy.length_max
        /\ \A k \in policy.max_consecutive_same : k >= 1
        /\ \A deny \in policy.deny_substrings :
              \A i \in 1..Len(deny) : Len(deny[i]) > 0
        /\ policy.require_specials =>
              \E specials \in policy.allowed_specials : Len(specials) > 0

\* an accepted policy at the edge of the constraints: four required
\* categories, length_max = 1024, max_consecutive_same = 1
C6_Witness ==
    /\ pc = "ready"
    /\ NumRequired(policy) = 4
    /\ policy.length_max = 1024
    /\ policy.max_consecutive_same = Some(1)
    /\ policy.deny_substrings # None

\* an entry of allowed_specials that is not exactly one character long
HasBadSpecial(p) ==
    \E specials \in p.allowed_specials :
        \E i \in 1..Len(specials) : Len(specials[i]) # 1

\* C7 as stated: a policy with an entry of allowed_specials that is not one
\* character long is rejected, whatever require_specials is.
C7_Original ==
    (pc # "new" /\ HasBadSpecial(policy)) => pc = "rejected"

\* C7 amended: such a policy is rejected when require_specials is true.
C7_MultiCharRejected ==
    (pc # "new" /\ HasBadSpecial(policy) /\ policy.require_specials) =>
        pc = "rejected"

\* a policy rejected for its multi-character special alone
C7_Witness ==
    /\ pc = "rejected"
    /\ HasBadSpecial(policy)
    /\ policy.require_specials
    /\ error = "allowed_specials must contain only single-character strings"

\* C9: from_dict(to_dict(p)) raises no PolicyError and serializes to the
\* same dict.
C9_RoundTrip ==
    policy2 # None =>
        /\ error2 = OK
        /\ to_dict(Val(policy2)) = Val(data)
        /\ \A k \in DOMAIN policy : Val(policy2)[k] = policy[k]

\* a round trip of a policy with every optional field set
C9_Witness ==
    /\ policy2 # None
    /\ Val(policy2).allowed_specials # None
    /\ Val(policy2).deny_substrings # None
    /\ Val(policy2).max_consecutive_same # None
    /\ Val(policy2).length_min # 12

(***************************************************************************)
(* The generator's defensive re-checks.                                    *)
(***************************************************************************)
\* C11: on a policy that validation accepted, the only PolicyError of
\* generate is the exhaustion error: at every step of a call the re-checks
\* of _get_target_length pass and, when a special character can be drawn,
\* allowed_specials is neither None nor empty.
C11_OnlyExhaustion ==
    /\ pc = "raised" => error = ExhaustedError
    /\ (Running \/ Terminated) =>
          /\ policy.length_min > 0
          /\ policy.length_min <= policy.length_max
          /\ NumRequired(policy) <= policy.length_max
          /\ policy.require_specials =>
                \E specials \in policy.allowed_specials : Len(specials) > 0

\* the exhaustion error of a call that has drawn special characters in more
\* than one attempt
C11_Witness ==
    /\ pc = "raised"
    /\ error = ExhaustedError
    /\ policy.require_specials
    /\ attempts > 1
    /\ \E i \in 1..Len(password) :
          <<password[i]>> \in Range(Val(policy.allowed_specials))

====
